---- MODULE Spec2Model ----
(***************************************************************************)
(* Model of the council-meeting-analyzer core:                             *)
(*   - create_doc_with_transcript (src/api/google_docs.py): the edit       *)
(*     script of insertText / updateParagraphStyle requests;               *)
(*   - get_transcript (src/api/index.py): caption-track selection and the  *)
(*     SRT parsing loop, with parse_srt_timestamp and format_time;         *)
(*   - update_doc_with_analysis (src/api/google_docs.py): the search for   *)
(*     the insertion point, and the document the two batches leave behind. *)
(* Python strings are sequences of one-character strings, so that len(),   *)
(* split(), strip() and the f-strings are computed character by character. *)
(* Python floats holding seconds are integers holding milliseconds.        *)
(***************************************************************************)
EXTENDS Integers, Sequences, FiniteSets, TLC

VARIABLES
    pc,                 \* position in the handler being run
    result,             \* what the handler returned ("none" while running)
    \* ---- create_doc_with_transcript ----
    video_info,         \* transcript_data['video']: title, channel, url, duration
    analysis_text,      \* the optional analysis (None, or a string)
    formatted,          \* transcript_data['transcript']['formatted']
    requests,           \* the batchUpdate request list
    current_index,      \* the running insertion index
    \* ---- get_transcript: caption selection ----
    items,              \* captions_response['items']
    caption_id,
    caption_track,
    downloaded,         \* the id handed to captions().download, or None
    \* ---- get_transcript: SRT parsing ----
    transcript_text,    \* the decoded download response
    todo,               \* lines of transcript_text.split('\n') not yet iterated
    segments,
    full_text,
    current_timestamp,
    current_text,
    transcript,         \* the 'transcript' entry of the returned dict
    \* ---- format_time / parse_time ----
    time_ms,            \* a time in milliseconds (the float 'seconds')
    stamp,              \* a timestamp HH:MM:SS,mmm
    clock,              \* what format_time returned
    parsed,             \* what parse_time returned
    \* ---- update_doc_with_analysis ----
    document,           \* the stored document: its paragraphs, in order
    content,            \* document.get('body').get('content')
    insert_index,
    new_analysis,       \* the analysis_text of update_doc_with_analysis
    update_requests     \* the requests of update_doc_with_analysis

docVars   == <<video_info, analysis_text, formatted, requests, current_index>>
selVars   == <<items, caption_id, caption_track, downloaded>>
parseVars == <<transcript_text, todo, segments, full_text, current_timestamp,
               current_text, transcript>>
timeVars  == <<time_ms, stamp, clock, parsed>>
updateVars == <<content, insert_index, new_analysis, update_requests>>
updVars   == <<document, updateVars>>
vars      == <<pc, result, docVars, selVars, parseVars, timeVars, updVars>>

(***************************************************************************)
(* Bounds of the model.                                                    *)
(***************************************************************************)
MaxTitleLen == 2
MaxTracks == 3
MaxLines == 4
MaxSegments == 2
MaxParagraphs == 3

(***************************************************************************)
(* Python values and string helpers.                                       *)
(***************************************************************************)
\* Python's None, as a value no string (sequence of characters) can equal.
None == <<"None">>

Truthy_analysis_empty_is_present(s) == s # None

\* `if analysis_text:` -- None and the empty string are both falsy.
Truthy(s) == s # None /\ s # <<>>

Digits == <<"0", "1", "2", "3", "4", "5", "6", "7", "8", "9">>

DigitSet == {Digits[i] : i \in 1..10}

\* str() of a non-negative int, as the f-string conversion writes it.
RECURSIVE IntToStr(_)
IntToStr(n) == IF n < 10 THEN <<Digits[n + 1]>>
               ELSE IntToStr(n \div 10) \o <<Digits[(n % 10) + 1]>>

\* The strings a title/channel of at most n characters over alphabet A can be.
StringsUpTo(A, n) == UNION {[1..k -> A] : k \in 0..n}

\* the sum of len(t) over the strings t of texts
RECURSIVE SumLen(_)
SumLen(texts) == IF texts = <<>> THEN 0
                 ELSE Len(Head(texts)) + SumLen(Tail(texts))

(***************************************************************************)
(* String operations of the Python standard library used by get_transcript.*)
(***************************************************************************)
Whitespace == {" ", "\t", "\n", "\r", "\f"}

\* s.lstrip()
RECURSIVE LStrip(_)
LStrip(s) == IF s # <<>> /\ Head(s) \in Whitespace THEN LStrip(Tail(s)) ELSE s

\* s.rstrip()
RECURSIVE RStrip(_)
RStrip(s) == IF s # <<>> /\ s[Len(s)] \in Whitespace
             THEN RStrip(SubSeq(s, 1, Len(s) - 1)) ELSE s

\* s.strip()
Strip(s) == RStrip(LStrip(s))

\* s.isdigit()
IsDigit(s) == s # <<>> /\ \A i \in 1..Len(s) : s[i] \in DigitSet

\* sub in s
Contains(s, sub) ==
    \E i \in 1..(Len(s) - Len(sub) + 1) : SubSeq(s, i, i + Len(sub) - 1) = sub

\* s.split(sep), sep a non-empty string: scanning from position i, the field
\* being read starts at position from
RECURSIVE SplitFrom(_, _, _, _)
SplitFrom(s, sep, from, i) ==
    IF i + Len(sep) - 1 > Len(s) THEN <<SubSeq(s, from, Len(s))>>
    ELSE IF SubSeq(s, i, i + Len(sep) - 1) = sep
      THEN <<SubSeq(s, from, i - 1)>> \o SplitFrom(s, sep, i + Len(sep), i + Len(sep))
    ELSE SplitFrom(s, sep, from, i + 1)

Split(s, sep) == SplitFrom(s, sep, 1, 1)

\* sep.join(parts)
RECURSIVE Join(_, _)
Join(parts, sep) ==
    IF parts = <<>> THEN <<>>
    ELSE IF Len(parts) = 1 THEN parts[1]
    ELSE parts[1] \o sep \o Join(Tail(parts), sep)

\* s.replace(a, b) for one-character a and b
Replace(s, a, b) == [i \in 1..Len(s) |-> IF s[i] = a THEN b ELSE s[i]]

\* s.lower(), on the letters the track names use
LowerChar(c) == CASE c = "A" -> "a" [] c = "G" -> "g" [] c = "E" -> "e" [] OTHER -> c

Lower(s) == [i \in 1..Len(s) |-> LowerChar(s[i])]

\* the value of a string of decimal digits
RECURSIVE DigitsValue(_)
DigitsValue(s) ==
    IF s = <<>> THEN 0
    ELSE 10 * DigitsValue(SubSeq(s, 1, Len(s) - 1))
         + (CHOOSE d \in 0..9 : Digits[d + 1] = s[Len(s)])

\* the body of a numeric literal without its optional sign
Unsigned(t) == IF t # <<>> /\ Head(t) \in {"+", "-"} THEN Tail(t) ELSE t

SignOf(t) == IF t # <<>> /\ Head(t) = "-" THEN -1 ELSE 1

\* int() of a string without surrounding whitespace: an optional sign and
\* decimal digits; anything else raises ValueError (ok = FALSE)
IntOfStripped(t) ==
    IF IsDigit(Unsigned(t))
      THEN [ok |-> TRUE, val |-> SignOf(t) * DigitsValue(Unsigned(t))]
      ELSE [ok |-> FALSE, val |-> 0]

\* int(s): surrounding whitespace is ignored
ParseInt(s) == IntOfStripped(Strip(s))

\* the first three fraction digits as milliseconds
FractionMs(f) == DigitsValue(SubSeq(f \o <<"0", "0", "0">>, 1, 3))

\* float() of sign and the '.'-separated fields fs of the unsigned literal, in
\* milliseconds: digits with an optional '.' and fraction digits, at least
\* one digit; anything else raises ValueError (ok = FALSE)
FloatOfFields(sign, fs) ==
    IF /\ Len(fs) <= 2
       /\ \A i \in 1..Len(fs) : fs[i] = <<>> \/ IsDigit(fs[i])
       /\ \E i \in 1..Len(fs) : fs[i] # <<>>
      THEN [ok |-> TRUE,
            val |-> sign * (1000 * DigitsValue(fs[1])
                            + (IF Len(fs) = 2 THEN FractionMs(fs[2]) ELSE 0))]
      ELSE [ok |-> FALSE, val |-> 0]

\* float(s): surrounding whitespace is ignored
ParseFloat(s) == FloatOfFields(SignOf(Strip(s)), Split(Unsigned(Strip(s)), <<".">>))

LastIndexWhere(hit) ==
    IF \E i \in 1..Len(hit) : hit[i]
      THEN CHOOSE i \in 1..Len(hit) : hit[i] /\ \A j \in (i + 1)..Len(hit) : ~hit[j]
      ELSE 0

\* `for item in items: if <test>: ...; break` -- the index the loop stops at,
\* 0 when it runs to the end; hit[i] is the test on the i-th item
FirstIndexWhere(hit) ==
    IF \E i \in 1..Len(hit) : hit[i]
      THEN CHOOSE i \in 1..Len(hit) : hit[i] /\ \A j \in 1..(i - 1) : ~hit[j]
      ELSE 0

(***************************************************************************)
(* The document store behind docs_service.documents(): create, get and     *)
(* batchUpdate.  A document is the sequence of the paragraphs of its body;  *)
(* the character at position k of the body text stands at index k, and the  *)
(* body ends at index 1 + len(body text).                                   *)
(***************************************************************************)
\* ''.join(parts)
RECURSIVE Concat(_)
Concat(parts) == IF parts = <<>> THEN <<>> ELSE Head(parts) \o Concat(Tail(parts))

\* a paragraph: its namedStyleType and the contents of its text runs, the last
\* of which ends with "\n"
Paragraph(style, elements) == [style |-> style, elements |-> elements]

ParagraphText(p) == Concat(p.elements)

\* documents().create(body={'title': ...}): a body of one empty paragraph
EmptyDocument == <<Paragraph("NORMAL_TEXT", << <<"\n">> >>)>>

BodyText(doc) == Concat([k \in 1..Len(doc) |-> ParagraphText(doc[k])])

\* the index one past the last character of the body
SegmentEnd(doc) == 1 + Len(BodyText(doc))

\* startIndex of the k-th paragraph
RECURSIVE StartIndex(_, _)
StartIndex(doc, k) ==
    IF k = 1 THEN 1 ELSE StartIndex(doc, k - 1) + Len(ParagraphText(doc[k - 1]))

EndIndex(doc, k) == StartIndex(doc, k) + Len(ParagraphText(doc[k]))

\* the paragraph that holds index i, for 1 <= i < SegmentEnd(doc)
ParagraphAt(doc, i) ==
    CHOOSE k \in 1..Len(doc) : StartIndex(doc, k) <= i /\ i < EndIndex(doc, k)

\* the pieces of a text that ends with "\n", each ending with its own "\n"
RECURSIVE PiecesFrom(_, _, _)
PiecesFrom(t, from, i) ==
    IF i > Len(t) THEN <<>>
    ELSE IF t[i] = "\n" THEN <<SubSeq(t, from, i)>> \o PiecesFrom(t, i + 1, i + 1)
    ELSE PiecesFrom(t, from, i + 1)

\* the paragraphs a paragraph of this style becomes when its text becomes t:
\* a new paragraph copies the style of the paragraph at the insertion index
ParagraphsOf(style, pieces) ==
    [j \in 1..Len(pieces) |-> Paragraph(style, <<pieces[j]>>)]

\* text put into paragraph k, before the character at offset + 1 of its text
InsertIntoParagraph(doc, k, text, offset) ==
    SubSeq(doc, 1, k - 1)
    \o ParagraphsOf(doc[k].style,
                    PiecesFrom(SubSeq(ParagraphText(doc[k]), 1, offset) \o text
                               \o SubSeq(ParagraphText(doc[k]), offset + 1,
                                         Len(ParagraphText(doc[k]))), 1, 1))
    \o SubSeq(doc, k + 1, Len(doc))

InsertInto(doc, k, index, text) ==
    InsertIntoParagraph(doc, k, text, index - StartIndex(doc, k))

\* an insertText request: every later character moves up by len(text)
ApplyInsertText(doc, index, text) ==
    IF text = <<>> THEN doc ELSE InsertInto(doc, ParagraphAt(doc, index), index, text)

\* an updateParagraphStyle request: every paragraph that overlaps the range
\* takes the style
ApplyParagraphStyle(doc, startIndex, endIndex, style) ==
    [k \in 1..Len(doc) |->
       IF StartIndex(doc, k) < endIndex /\ EndIndex(doc, k) > startIndex
         THEN Paragraph(style, doc[k].elements) ELSE doc[k]]

\* whether the store takes the request: an insertion index lies inside the
\* body, a range is non-empty and inside the body; `lenient` is whether the
\* store takes an insertText with an empty text
ValidRequest(doc, r, lenient) ==
    IF r.kind = "insertText"
      THEN /\ 1 <= r.index
           /\ r.index < SegmentEnd(doc)
           /\ (r.text # <<>> \/ lenient)
      ELSE /\ 1 <= r.startIndex
           /\ r.startIndex < r.endIndex
           /\ r.endIndex <= SegmentEnd(doc)

ApplyRequest(doc, r) ==
    IF r.kind = "insertText" THEN ApplyInsertText(doc, r.index, r.text)
    ELSE ApplyParagraphStyle(doc, r.startIndex, r.endIndex, r.namedStyleType)

\* batchUpdate(body={'requests': reqs}): the requests are applied one after
\* another, each to the document the ones before it left; the first that the
\* store does not take fails the whole batch and leaves the document as it was
RECURSIVE ApplyFrom(_, _, _, _)
ApplyFrom(doc, reqs, i, lenient) ==
    IF i > Len(reqs) THEN [ok |-> TRUE, doc |-> doc]
    ELSE IF ~ValidRequest(doc, reqs[i], lenient) THEN [ok |-> FALSE, doc |-> doc]
    ELSE ApplyFrom(ApplyRequest(doc, reqs[i]), reqs, i + 1, lenient)

BatchResult(doc, r) == IF r.ok THEN r ELSE [ok |-> FALSE, doc |-> doc]

BatchUpdate(doc, reqs, lenient) == BatchResult(doc, ApplyFrom(doc, reqs, 1, lenient))

\* body.content of documents().get: the section break that opens the body,
\* then one item per paragraph
SectionBreak == [kind |-> "sectionBreak", startIndex |-> 0, endIndex |-> 1,
                 style |-> "", elements |-> <<>>]

ParagraphItem(doc, k) ==
    [kind |-> "paragraph", startIndex |-> StartIndex(doc, k),
     endIndex |-> EndIndex(doc, k), style |-> doc[k].style,
     elements |-> doc[k].elements]

ContentOf(doc) == <<SectionBreak>> \o [k \in 1..Len(doc) |-> ParagraphItem(doc, k)]

(***************************************************************************)
(* create_doc_with_transcript                                              *)
(***************************************************************************)
TitlePrefix == <<"#", " ", "M", "e", "e", "t", "i", "n", "g", " ", "T", "r", "a", "n", "s", "c", "r", "i", "p", "t", ":", " ">>

\* f"# Meeting Transcript: {video_info['title']}\n\n"
TitleText(title) == TitlePrefix \o title \o <<"\n", "\n">>

\* format_duration(seconds)
format_duration(seconds) ==
    LET hours     == seconds \div 3600
        remainder == seconds % 3600
        minutes   == remainder \div 60
        secs      == remainder % 60
    IN  IF hours > 0
          THEN IntToStr(hours) \o <<"h", " ">> \o IntToStr(minutes) \o <<"m", " ">>
                 \o IntToStr(secs) \o <<"s">>
        ELSE IF minutes > 0
          THEN IntToStr(minutes) \o <<"m", " ">> \o IntToStr(secs) \o <<"s">>
        ELSE IntToStr(secs) \o <<"s">>

\* metadata_text
MetadataText(info) ==
    <<"V", "i", "d", "e", "o", " ", "U", "R", "L", ":", " ">> \o info.url \o <<"\n">>
    \o <<"C", "h", "a", "n", "n", "e", "l", ":", " ">> \o info.channel \o <<"\n">>
    \o <<"D", "u", "r", "a", "t", "i", "o", "n", ":", " ">>
    \o format_duration(info.duration) \o <<"\n", "\n">>
    \o <<"-", "-", "-", "\n", "\n">>

analysis_header == <<"#", "#", " ", "A", "n", "a", "l", "y", "s", "i", "s", "\n", "\n">>

AnalysisSeparator == <<"\n", "\n", "-", "-", "-", "\n", "\n">>

\* analysis_text + "\n\n---\n\n"
AnalysisBody(a) == a \o AnalysisSeparator

transcript_header == <<"#", "#", " ", "F", "u", "l", "l", " ", "T", "r", "a", "n", "s", "c", "r", "i", "p", "t", "\n", "\n">>

InsertText(index, text) == [kind |-> "insertText", index |-> index, text |-> text]

UpdateParagraphStyle(startIndex, endIndex, style) ==
    [kind |-> "updateParagraphStyle", startIndex |-> startIndex,
     endIndex |-> endIndex, namedStyleType |-> style]

TitleStyleEnd_covers_newlines(title) == 1 + Len(TitleText(title))

\* 'endIndex': 1 + len(f"# Meeting Transcript: {video_info['title']}")
TitleStyleEnd(title) == 1 + Len(TitlePrefix \o title)

\* Inputs of create_doc_with_transcript.
TitleAlphabet == {"T", "x"}
Titles == StringsUpTo(TitleAlphabet, MaxTitleLen)
Channels == {<<"P", "D", "X">>}
Urls == {<<"h", "t", "t", "p", "s", ":", "/", "/", "w", "w", "w", ".", "y", "o", "u", "t", "u", "b", "e", ".", "c", "o", "m", "/", "w", "a", "t", "c", "h", "?", "v", "=", "a", "b", "c">>}
Durations == {0, 59, 75, 3725}
Analyses == {None, <<>>, <<"o", "k">>, <<"a", "\n", "b">>}
FormattedTranscripts ==
    {<<>>, <<"[", "0", "0", ":", "0", "0", ":", "0", "0", " ", "-", " ", "0", "0", ":", "0", "0", ":", "0", "2", "]", " ", "H", "i">>}

\* The value standing for caption_track = None.
NoTrack == [id |-> None, language |-> <<>>, name |-> <<>>, trackKind |-> <<>>]

NoSel == [items |-> <<>>, caption_id |-> None, caption_track |-> NoTrack,
          downloaded |-> None]

NoParse == [transcript_text |-> <<>>, todo |-> <<>>, segments |-> <<>>,
            full_text |-> <<>>, current_timestamp |-> <<>>, current_text |-> <<>>,
            transcript |-> [full |-> <<>>, formatted |-> <<>>, segments |-> <<>>]]

SelIdle == /\ items = NoSel.items
           /\ caption_id = NoSel.caption_id
           /\ caption_track = NoSel.caption_track
           /\ downloaded = NoSel.downloaded

ParseIdle == /\ transcript_text = NoParse.transcript_text
             /\ todo = NoParse.todo
             /\ segments = NoParse.segments
             /\ full_text = NoParse.full_text
             /\ current_timestamp = NoParse.current_timestamp
             /\ current_text = NoParse.current_text
             /\ transcript = NoParse.transcript

\* insert_index = None
NoIndex == -1

NoTime == [ok |-> FALSE, val |-> 0]

TimeIdle == /\ time_ms = 0
            /\ stamp = <<>>
            /\ clock = <<>>
            /\ parsed = NoTime

UpdateIdle == /\ content = <<>>
              /\ insert_index = NoIndex
              /\ new_analysis = <<>>
              /\ update_requests = <<>>

UpdIdle == /\ document = <<>>
           /\ UpdateIdle

DocIdle == /\ video_info = [title |-> <<>>, channel |-> <<>>, url |-> <<>>, duration |-> 0]
           /\ analysis_text = None
           /\ formatted = <<>>
           /\ requests = <<>>
           /\ current_index = 0

\* State on entry to the "Prepare document content" part (line 71).
InitDoc ==
    /\ pc = "doc_title"
    /\ result = "none"
    /\ \E t \in Titles, c \in Channels, u \in Urls, d \in Durations :
         video_info = [title |-> t, channel |-> c, url |-> u, duration |-> d]
    /\ analysis_text \in Analyses
    /\ formatted \in FormattedTranscripts
    /\ requests = <<>>
    /\ current_index = 0
    /\ document = EmptyDocument
    /\ UpdateIdle
    /\ SelIdle
    /\ ParseIdle
    /\ TimeIdle

\* lines 74-84: the title request at index 1, then current_index = len(title text)
AppendTitle ==
    /\ pc = "doc_title"
    /\ requests' = Append(requests, InsertText(1, TitleText(video_info.title)))
    /\ current_index' = Len(TitleText(video_info.title))
    /\ pc' = "doc_metadata"
    /\ UNCHANGED <<result, video_info, analysis_text, formatted, selVars, parseVars,
                   timeVars, updVars>>

\* lines 85-101
AppendMetadata ==
    /\ pc = "doc_metadata"
    /\ requests' = Append(requests, InsertText(current_index, MetadataText(video_info)))
    /\ current_index' = current_index + Len(MetadataText(video_info))
    /\ pc' = "doc_analysis"
    /\ UNCHANGED <<result, video_info, analysis_text, formatted, selVars, parseVars,
                   timeVars, updVars>>

\* lines 104-126, analysis_text truthy
AppendAnalysis ==
    /\ pc = "doc_analysis"
    /\ Truthy(analysis_text)
    /\ requests' = requests \o
         <<InsertText(current_index, analysis_header),
           InsertText(current_index + Len(analysis_header), AnalysisBody(analysis_text))>>
    /\ current_index' = current_index + Len(analysis_header) + Len(analysis_text) + 6
    /\ pc' = "doc_transcript_header"
    /\ UNCHANGED <<result, video_info, analysis_text, formatted, selVars, parseVars,
                   timeVars, updVars>>

\* line 104, analysis_text falsy
SkipAnalysis ==
    /\ pc = "doc_analysis"
    /\ ~Truthy(analysis_text)
    /\ pc' = "doc_transcript_header"
    /\ UNCHANGED <<result, docVars, selVars, parseVars,
                   timeVars, updVars>>

\* lines 129-139
AppendTranscriptHeader ==
    /\ pc = "doc_transcript_header"
    /\ requests' = Append(requests, InsertText(current_index, transcript_header))
    /\ current_index' = current_index + Len(transcript_header)
    /\ pc' = "doc_transcript_body"
    /\ UNCHANGED <<result, video_info, analysis_text, formatted, selVars, parseVars,
                   timeVars, updVars>>

\* lines 142-149
AppendTranscriptBody ==
    /\ pc = "doc_transcript_body"
    /\ requests' = Append(requests, InsertText(current_index, formatted))
    /\ pc' = "doc_style"
    /\ UNCHANGED <<result, video_info, analysis_text, formatted, current_index,
                   selVars, parseVars,
                   timeVars, updVars>>

\* lines 153-164
AppendTitleStyle ==
    /\ pc = "doc_style"
    /\ requests' = Append(requests,
         UpdateParagraphStyle(1, TitleStyleEnd(video_info.title), "HEADING_1"))
    /\ pc' = "doc_batch"
    /\ UNCHANGED <<result, video_info, analysis_text, formatted, current_index,
                   selVars, parseVars,
                   timeVars, updVars>>

\* what a function returns after batchUpdate: the success dict, or the error
\* dict of its except clause
BatchOutcome(r) == IF r.ok THEN "success" ELSE "error"

\* lines 167-191: the request list is handed to batchUpdate as built
ExecuteBatch ==
    /\ pc = "doc_batch"
    /\ \E lenient \in BOOLEAN :
         /\ document' = BatchUpdate(document, requests, lenient).doc
         /\ result' = BatchOutcome(BatchUpdate(document, requests, lenient))
    /\ pc' = "doc_done"
    /\ UNCHANGED <<docVars, selVars, parseVars, timeVars, updateVars>>

NextDoc ==
    \/ AppendTitle
    \/ AppendMetadata
    \/ AppendAnalysis
    \/ SkipAnalysis
    \/ AppendTranscriptHeader
    \/ AppendTranscriptBody
    \/ AppendTitleStyle
    \/ ExecuteBatch

SpecDoc == InitDoc /\ [][NextDoc]_vars

(***************************************************************************)
(* update_doc_with_analysis (lines 205-274)                                *)
(***************************************************************************)
FullTranscript == <<"F", "u", "l", "l", " ", "T", "r", "a", "n", "s", "c", "r", "i", "p", "t">>

IsTranscriptHeading_any_style(item) ==
    /\ item.kind = "paragraph"
    /\ Contains(Concat(item.elements), FullTranscript)

\* the test of the loop body (lines 219-225): a paragraph, named HEADING_2,
\* whose joined text runs contain "Full Transcript"
IsTranscriptHeading(item) ==
    /\ item.kind = "paragraph"
    /\ item.style = "HEADING_2"
    /\ Contains(Concat(item.elements), FullTranscript)

\* insert_index after the loop that stopped at item k (0: ran to the end)
FoundIndex(items_, k) == IF k = 0 THEN NoIndex ELSE items_[k].startIndex

\* not insert_index
Falsy(i) == i = NoIndex \/ i = 0

\* the two requests of lines 238-259
UpdateRequests(index, text) ==
    <<InsertText(index, analysis_header \o AnalysisBody(text)),
      UpdateParagraphStyle(index, index + Len(RStrip(analysis_header)), "HEADING_2")>>

\* Inputs: the paragraphs a stored document is made of
PlainLine        == Paragraph("NORMAL_TEXT", << <<"x", "\n">> >>)
PlainMarker      == Paragraph("NORMAL_TEXT", << <<"#", "#", " ">> \o FullTranscript \o <<"\n">> >>)
TitleHeading     == Paragraph("HEADING_1", << TitlePrefix \o <<"T", "\n">> >>)
OtherHeading     == Paragraph("HEADING_2", << <<"#", "#", " ", "A", "n", "a", "l", "y", "s", "i", "s", "\n">> >>)
MarkerHeading    == Paragraph("HEADING_2", << <<"#", "#", " ">> \o FullTranscript \o <<"\n">> >>)
SplitMarkerHeading ==
    Paragraph("HEADING_2", << <<"F", "u", "l", "l", " ">>,
                              <<"T", "r", "a", "n", "s", "c", "r", "i", "p", "t", "\n">> >>)

ParagraphPool == {PlainLine, PlainMarker, TitleHeading, OtherHeading, MarkerHeading,
                  SplitMarkerHeading}

Documents == UNION {[1..k -> ParagraphPool] : k \in 1..MaxParagraphs}

UpdateAnalyses == {<<>>, <<"o", "k">>}

\* State on entry to update_doc_with_analysis, for any stored document
InitLocate ==
    /\ pc = "upd_get"
    /\ result = "none"
    /\ document \in Documents
    /\ new_analysis \in UpdateAnalyses
    /\ content = <<>>
    /\ insert_index = NoIndex
    /\ update_requests = <<>>
    /\ DocIdle
    /\ SelIdle
    /\ ParseIdle
    /\ TimeIdle

\* lines 212-216
GetDocument ==
    /\ pc = "upd_get"
    /\ content' = ContentOf(document)
    /\ insert_index' = NoIndex
    /\ pc' = "upd_scan"
    /\ UNCHANGED <<result, document, new_analysis, update_requests, docVars,
                   selVars, parseVars, timeVars>>

\* lines 218-227: the loop over content, left at the first hit
ScanContent ==
    /\ pc = "upd_scan"
    /\ insert_index' =
         FoundIndex(content,
                    FirstIndexWhere([k \in 1..Len(content) |->
                                       IsTranscriptHeading(content[k])]))
    /\ pc' = "upd_scanned"
    /\ UNCHANGED <<result, document, content, new_analysis, update_requests,
                   docVars, selVars, parseVars, timeVars>>

\* lines 229-231: if not insert_index: insert_index = 1
UseFallback ==
    /\ pc = "upd_scanned"
    /\ Falsy(insert_index)
    /\ insert_index' = 1
    /\ pc' = "upd_located"
    /\ UNCHANGED <<result, document, content, new_analysis, update_requests,
                   docVars, selVars, parseVars, timeVars>>

KeepFound ==
    /\ pc = "upd_scanned"
    /\ ~Falsy(insert_index)
    /\ pc' = "upd_located"
    /\ UNCHANGED <<result, updVars, docVars, selVars, parseVars, timeVars>>

\* lines 233-274: the two requests, batchUpdate, and the returned dict
ExecuteUpdate ==
    /\ pc = "upd_located"
    /\ update_requests' = UpdateRequests(insert_index, new_analysis)
    /\ document' = BatchUpdate(document, update_requests', TRUE).doc
    /\ result' = BatchOutcome(BatchUpdate(document, update_requests', TRUE))
    /\ pc' = "upd_done"
    /\ UNCHANGED <<content, insert_index, new_analysis, docVars, selVars,
                   parseVars, timeVars>>

NextUpdate ==
    \/ GetDocument
    \/ ScanContent
    \/ UseFallback
    \/ KeepFound
    \/ ExecuteUpdate

SpecLocate == InitLocate /\ [][NextUpdate]_vars

\* update_analysis (app_integration.py, lines 268-294) takes the id of any
\* stored document: one that create_doc_with_transcript is about to build, or
\* any other
InitCreateUpdate == InitDoc \/ InitLocate

\* update_analysis on a document that create_doc_with_transcript has built
BeginUpdate ==
    /\ pc = "doc_done"
    /\ result = "success"
    /\ new_analysis' \in UpdateAnalyses
    /\ result' = "none"
    /\ pc' = "upd_get"
    /\ UNCHANGED <<document, content, insert_index, update_requests, docVars,
                   selVars, parseVars, timeVars>>

NextCreateUpdate ==
    \/ NextDoc
    \/ BeginUpdate
    \/ NextUpdate

SpecCreateUpdate == InitCreateUpdate /\ [][NextCreateUpdate]_vars

(***************************************************************************)
(* get_transcript: caption-track selection (lines 75-113)                  *)
(***************************************************************************)
AutoGenerated == <<"a", "u", "t", "o", "-", "g", "e", "n", "e", "r", "a", "t", "e", "d">>

English == <<"e", "n">>

\* is_auto (line 86)
is_auto(item) ==
    \/ Contains(Lower(item.name), AutoGenerated)
    \/ item.trackKind = <<"A", "S", "R">>

\* line 88
IsManualEnglish(item) == item.language = English /\ ~is_auto(item)

\* line 96
IsEnglish(item) == item.language = English

\* Inputs: the caption listing.  Track ids are distinct non-empty strings.
Languages == {English, <<"f", "r">>}
TrackNames == {<<>>, <<"E", "n", " ", "(", "A", "u", "t", "o", "-", "G", "e", "n", "e", "r", "a", "t", "e", "d", ")">>}
TrackKinds == {<<"s", "t", "a", "n", "d", "a", "r", "d">>, <<"A", "S", "R">>}
TrackId(i) == <<"t">> \o IntToStr(i)

TrackListings ==
    UNION {{[i \in 1..k |-> [id |-> TrackId(i), language |-> l[i], name |-> n[i],
                             trackKind |-> t[i]]] :
              l \in [1..k -> Languages], n \in [1..k -> TrackNames],
              t \in [1..k -> TrackKinds]} : k \in 0..MaxTracks}

InitSelect ==
    /\ pc = "sel_list"
    /\ result = "none"
    /\ items \in TrackListings
    /\ caption_id = None
    /\ caption_track = NoTrack
    /\ downloaded = None
    /\ DocIdle
    /\ ParseIdle
    /\ TimeIdle
    /\ UpdIdle

\* lines 75-76
NoCaptions ==
    /\ pc = "sel_list"
    /\ items = <<>>
    /\ pc' = "sel_done"
    /\ result' = "error: No captions found for this video"
    /\ UNCHANGED <<docVars, selVars, parseVars,
                   timeVars, updVars>>

\* lines 83-91
FindManualEnglish ==
    /\ pc = "sel_list"
    /\ items # <<>>
    /\ LET i == FirstIndexWhere([k \in 1..Len(items) |-> IsManualEnglish(items[k])])
       IN  IF i > 0
             THEN caption_id' = items[i].id /\ caption_track' = items[i]
             ELSE UNCHANGED <<caption_id, caption_track>>
    /\ pc' = "sel_auto"
    /\ UNCHANGED <<result, items, downloaded, docVars, parseVars,
                   timeVars, updVars>>

\* lines 94-99
FindAnyEnglish ==
    /\ pc = "sel_auto"
    /\ LET i == FirstIndexWhere([k \in 1..Len(items) |-> IsEnglish(items[k])])
       IN  IF ~Truthy(caption_id) /\ i > 0
             THEN caption_id' = items[i].id /\ caption_track' = items[i]
             ELSE UNCHANGED <<caption_id, caption_track>>
    /\ pc' = "sel_first"
    /\ UNCHANGED <<result, items, downloaded, docVars, parseVars,
                   timeVars, updVars>>

\* lines 102-107: the first available track, then the check that one was found
TakeFirstAvailable ==
    /\ pc = "sel_first"
    /\ IF ~Truthy(caption_id) /\ items # <<>>
         THEN caption_id' = items[1].id /\ caption_track' = items[1]
         ELSE UNCHANGED <<caption_id, caption_track>>
    /\ IF ~Truthy(caption_id')
         THEN pc' = "sel_done" /\ result' = "error: No suitable captions found"
         ELSE pc' = "sel_download" /\ UNCHANGED result
    /\ UNCHANGED <<items, downloaded, docVars, parseVars,
                   timeVars, updVars>>

\* lines 110-113
DownloadCaption ==
    /\ pc = "sel_download"
    /\ downloaded' = caption_id
    /\ pc' = "sel_done"
    /\ result' = "downloaded"
    /\ UNCHANGED <<items, caption_id, caption_track, docVars, parseVars,
                   timeVars, updVars>>

NextSelect ==
    \/ NoCaptions
    \/ FindManualEnglish
    \/ FindAnyEnglish
    \/ TakeFirstAvailable
    \/ DownloadCaption

SpecSelect == InitSelect /\ [][NextSelect]_vars

(***************************************************************************)
(* get_transcript: the SRT parsing loop (lines 116-193), with              *)
(* parse_srt_timestamp (198-208) and format_time (210-215).                *)
(* Seconds are held in milliseconds.                                       *)
(***************************************************************************)
Arrow == <<"-", "-", ">">>

ArrowSeparator == <<" ", "-", "-", ">", " ">>

\* int(h) * 3600 + int(m) * 60 + float(s) (line 206), in milliseconds; a
\* ValueError of any of the three conversions propagates
TimeOfParts_minutes_as_hundreds(h, m, sc) ==
    IF h.ok /\ m.ok /\ sc.ok
      THEN [ok |-> TRUE, val |-> h.val * 3600000 + m.val * 100000 + sc.val]
      ELSE [ok |-> FALSE, val |-> 0]

TimeOfParts(h, m, sc) ==
    IF h.ok /\ m.ok /\ sc.ok
      THEN [ok |-> TRUE, val |-> h.val * 3600000 + m.val * 60000 + sc.val]
      ELSE [ok |-> FALSE, val |-> 0]

\* h, m, s = <fields> (line 205) needs exactly three fields
TimeOfFields(f) ==
    IF Len(f) # 3 THEN [ok |-> FALSE, val |-> 0]
    ELSE TimeOfParts(ParseInt(f[1]), ParseInt(f[2]), ParseFloat(f[3]))

\* parse_time(time_str)
parse_time(time_str) == TimeOfFields(Split(time_str, <<":">>))

\* return parse_time(start_str), parse_time(end_str) (line 208)
TimesOf(st, en) ==
    IF st.ok /\ en.ok THEN [ok |-> TRUE, start |-> st.val, end |-> en.val]
    ELSE [ok |-> FALSE, start |-> 0, end |-> 0]

\* lines 201-208 on parts = timestamp_line.split(' --> '): parts[1] raises
\* IndexError when the line has no ' --> '; fields after the second are ignored
TimesOfParts(parts) ==
    IF Len(parts) < 2 THEN [ok |-> FALSE, start |-> 0, end |-> 0]
    ELSE TimesOf(parse_time(Replace(parts[1], ",", ".")),
                 parse_time(Replace(parts[2], ",", ".")))

\* parse_srt_timestamp(timestamp_line)
parse_srt_timestamp(timestamp_line) ==
    TimesOfParts(Split(timestamp_line, ArrowSeparator))

\* f"{n:02d}"
Pad2(n) == IF n < 0 THEN <<"-">> \o IntToStr(-n)
           ELSE IF n < 10 THEN <<"0">> \o IntToStr(n)
           ELSE IntToStr(n)

format_time_rounded(ms) ==
    LET hrs  == (ms + 500) \div 3600000
        mins == ((ms + 500) % 3600000) \div 60000
        secs == ((ms + 500) % 60000) \div 1000
    IN  Pad2(hrs) \o <<":">> \o Pad2(mins) \o <<":">> \o Pad2(secs)

\* format_time(seconds)
format_time(ms) ==
    LET hrs  == ms \div 3600000
        mins == (ms % 3600000) \div 60000
        secs == (ms % 60000) \div 1000
    IN  Pad2(hrs) \o <<":">> \o Pad2(mins) \o <<":">> \o Pad2(secs)

\* The parser's local variables, as one value.
ParserState(segs, full, ts, text, err) ==
    [segments |-> segs, full_text |-> full, current_timestamp |-> ts,
     current_text |-> text, error |-> err]

ParserStart == ParserState(<<>>, <<>>, <<>>, <<>>, FALSE)

HasPending_text_only(st) == st.current_text # <<>>

\* `if current_text and current_timestamp:` (lines 136 and 155)
HasPending(st) == st.current_text # <<>> /\ st.current_timestamp # <<>>

\* the segment dict of lines 140-144 and 159-163 from the parsed times t;
\* ok = FALSE when parse_srt_timestamp raised
SegmentOf(t, text) ==
    [ok |-> t.ok, segment |-> [start |-> t.start, end |-> t.end, text |-> text]]

\* ' '.join(current_text) and parse_srt_timestamp(current_timestamp)
\* (lines 137-138, 156-157)
PendingSegment(st) ==
    SegmentOf(parse_srt_timestamp(st.current_timestamp), Join(st.current_text, <<" ">>))

FullTextAfterSave_no_space(full, text) == full \o text

\* full_text += text + " " (line 146)
FullTextAfterSave(full, text) == full \o text \o <<" ">>

\* lines 140-147 with the pending segment seg; an exception of
\* parse_srt_timestamp leaves the function through `except`
SavePreviousAs(st, seg) ==
    IF ~seg.ok
      THEN [st EXCEPT !.error = TRUE]
      ELSE [st EXCEPT !.segments = Append(@, seg.segment),
                      !.full_text = FullTextAfterSave(@, seg.segment.text),
                      !.current_text = <<>>]

\* lines 137-147: save the previous segment
SavePrevious(st) == SavePreviousAs(st, PendingSegment(st))

\* line 149, unless the save raised
StartTimestamp(saved, line) ==
    IF saved.error THEN saved ELSE [saved EXCEPT !.current_timestamp = line]

\* lines 134-149: a line containing '-->'
OnTimestampLine(st, line) ==
    StartTimestamp(IF HasPending(st) THEN SavePrevious(st) ELSE st, line)

\* lines 150-152
OnTextLine(st, line) == [st EXCEPT !.current_text = Append(@, line)]

\* lines 159-165 with the pending segment seg
SaveLastAs(st, seg) ==
    IF ~seg.ok
      THEN [st EXCEPT !.error = TRUE]
      ELSE [st EXCEPT !.segments = Append(@, seg.segment),
                      !.full_text = @ \o seg.segment.text]

SaveLast_dropped(st) == st

\* lines 155-165: the last segment
SaveLast(st) == IF HasPending(st) THEN SaveLastAs(st, PendingSegment(st)) ELSE st

\* line 130
IsSkipped(line) == line = <<>> \/ IsDigit(line)

\* line 134
IsTimestampLine(line) == Contains(line, Arrow)

\* lines 129-152 on the stripped line
OnLine(st, line) ==
    IF IsSkipped(line) THEN st
    ELSE IF IsTimestampLine(line) THEN OnTimestampLine(st, line)
    ELSE OnTextLine(st, line)

\* one iteration of `for line in transcript_text.split('\n')` (lines 126-152)
LoopStep(st, raw) == OnLine(st, Strip(raw))

\* the whole loop over the remaining lines; an exception ends it
RECURSIVE Loop(_, _)
Loop(st, lines) ==
    IF lines = <<>> \/ st.error THEN st
    ELSE Loop(LoopStep(st, Head(lines)), Tail(lines))

\* lines 168-172
FormattedSegments(segs) ==
    [i \in 1..Len(segs) |->
       <<"[">> \o format_time(segs[i].start) \o <<" ", "-", " ">>
       \o format_time(segs[i].end) \o <<"]", " ">> \o segs[i].text]

\* lines 186-189
TranscriptOf(st) ==
    [full      |-> Strip(st.full_text),
     formatted |-> Join(FormattedSegments(st.segments), <<"\n", "\n">>),
     segments  |-> st.segments]

\* the returned dict (lines 177-196) from the parser's final state
ResultOf(fin) ==
    IF fin.error THEN [ok |-> FALSE, transcript |-> NoParse.transcript]
    ELSE [ok |-> TRUE, transcript |-> TranscriptOf(fin)]

\* lines 155-165 after the loop, unless the loop raised
AfterLoop(st) == IF st.error THEN st ELSE SaveLast(st)

\* lines 116-196 as a function of the downloaded text
ParseResult(text) == ResultOf(AfterLoop(Loop(ParserStart, Split(text, <<"\n">>))))

\* Inputs: the lines a downloaded payload is made of.
LineEmpty == <<>>
LineIndex == <<"1">>
LineHi == <<"H", "i">>
LinePadded == <<" ", "y", "o", " ", "a", "l", "l", "\r">>
LineTime == <<"0", "0", ":", "0", "0", ":", "0", "1", ",", "5", "0", "0", " ", "-", "-", ">", " ", "0", "0", ":", "0", "1", ":", "0", "2", ",", "0", "0", "0">>
LineTimeReversed == <<"0", "0", ":", "0", "0", ":", "0", "5", ",", "0", "0", "0", " ", "-", "-", ">", " ", "0", "0", ":", "0", "0", ":", "0", "1", ",", "0", "0", "0">>
LineNoSeparator == <<"0", "0", ":", "0", "0", ":", "0", "1", "-", "-", ">", "0", "0", ":", "0", "0", ":", "0", "2">>
LineBadSide == <<"0", "0", ":", "0", "1", " ", "-", "-", ">", " ", "x", ":", "0", ":", "2">>

LinePool == {LineEmpty, LineIndex, LineHi, LinePadded, LineTime, LineTimeReversed,
             LineNoSeparator, LineBadSide}

Payloads ==
    {Join(ls, <<"\n">>) : ls \in UNION {[1..k -> LinePool] : k \in 0..MaxLines}}

St == ParserState(segments, full_text, current_timestamp, current_text, FALSE)

\* the parser's variables take the values of st; an exception returns the
\* error dict at once (lines 195-196)
Becomes(st) ==
    /\ segments' = st.segments
    /\ full_text' = st.full_text
    /\ current_timestamp' = st.current_timestamp
    /\ current_text' = st.current_text
    /\ IF st.error
         THEN pc' = "parse_done" /\ result' = "error: Error retrieving transcript"
         ELSE UNCHANGED <<pc, result>>

\* the function returns from the parser's final state fin (lines 177-196)
Returns(fin) ==
    /\ segments' = fin.segments
    /\ full_text' = fin.full_text
    /\ IF fin.error
         THEN /\ result' = "error: Error retrieving transcript"
              /\ UNCHANGED transcript
         ELSE /\ result' = "success"
              /\ transcript' = TranscriptOf(fin)

InitParse ==
    /\ pc = "parse_split"
    /\ result = "none"
    /\ transcript_text \in Payloads
    /\ todo = <<>>
    /\ segments = <<>>
    /\ full_text = <<>>
    /\ current_timestamp = <<>>
    /\ current_text = <<>>
    /\ transcript = NoParse.transcript
    /\ DocIdle
    /\ SelIdle
    /\ TimeIdle
    /\ UpdIdle

\* lines 119-126: the locals, and transcript_text.split('\n')
SplitLines ==
    /\ pc = "parse_split"
    /\ todo' = Split(transcript_text, <<"\n">>)
    /\ pc' = "parse_loop"
    /\ UNCHANGED <<result, transcript_text, segments, full_text, current_timestamp,
                   current_text, transcript, docVars, selVars,
                   timeVars, updVars>>

\* lines 127-131: an empty or all-digit line
SkipLine ==
    /\ pc = "parse_loop"
    /\ todo # <<>>
    /\ IsSkipped(Strip(Head(todo)))
    /\ todo' = Tail(todo)
    /\ UNCHANGED <<pc, result, transcript_text, segments, full_text,
                   current_timestamp, current_text, transcript, docVars, selVars,
                   timeVars, updVars>>

\* lines 134-149
TimestampLine ==
    /\ pc = "parse_loop"
    /\ todo # <<>>
    /\ ~IsSkipped(Strip(Head(todo)))
    /\ IsTimestampLine(Strip(Head(todo)))
    /\ Becomes(OnTimestampLine(St, Strip(Head(todo))))
    /\ todo' = Tail(todo)
    /\ UNCHANGED <<transcript_text, transcript, docVars, selVars,
                   timeVars, updVars>>

\* lines 150-152
TextLine ==
    /\ pc = "parse_loop"
    /\ todo # <<>>
    /\ ~IsSkipped(Strip(Head(todo)))
    /\ ~IsTimestampLine(Strip(Head(todo)))
    /\ Becomes(OnTextLine(St, Strip(Head(todo))))
    /\ todo' = Tail(todo)
    /\ UNCHANGED <<transcript_text, transcript, docVars, selVars,
                   timeVars, updVars>>

\* lines 155-165, then lines 168-193: the last segment, the formatted
\* listing and the returned dict
FinishParse ==
    /\ pc = "parse_loop"
    /\ todo = <<>>
    /\ Returns(SaveLast(St))
    /\ pc' = "parse_done"
    /\ UNCHANGED <<transcript_text, todo, current_timestamp, current_text,
                   docVars, selVars,
                   timeVars, updVars>>

NextParse ==
    \/ SplitLines
    \/ SkipLine
    \/ TimestampLine
    \/ TextLine
    \/ FinishParse

SpecParse == InitParse /\ [][NextParse]_vars

(***************************************************************************)
(* get_transcript: the formatting of a segment list (lines 167-172, 188),  *)
(* entered with any list of segments.                                      *)
(***************************************************************************)
\* Inputs: segment times in milliseconds (59.9 s, 65 s, 3599.999 s, 1 h,
\* 99:59:59.999) and the segment lists made of them.
TimePool == {0, 59900, 65000, 3599999, 3600000, 359999999}

SegmentPool == {[start |-> a, end |-> b, text |-> <<"H", "i">>] : a, b \in TimePool}

SegmentLists == UNION {[1..k -> SegmentPool] : k \in 0..MaxSegments}

InitFormat ==
    /\ pc = "format"
    /\ result = "none"
    /\ segments \in SegmentLists
    /\ transcript_text = <<>>
    /\ todo = <<>>
    /\ full_text = <<>>
    /\ current_timestamp = <<>>
    /\ current_text = <<>>
    /\ transcript = NoParse.transcript
    /\ DocIdle
    /\ SelIdle
    /\ TimeIdle
    /\ UpdIdle

\* lines 168-172 and 186-189: the formatted listing of the segments
FormatSegments ==
    /\ pc = "format"
    /\ transcript' = TranscriptOf(St)
    /\ result' = "success"
    /\ pc' = "format_done"
    /\ UNCHANGED <<transcript_text, todo, segments, full_text, current_timestamp,
                   current_text, docVars, selVars,
                   timeVars, updVars>>

NextFormat == FormatSegments

SpecFormat == InitFormat /\ [][NextFormat]_vars

(***************************************************************************)
(* format_time (lines 210-215) and parse_time (lines 204-206) applied one  *)
(* after the other, in both orders, to valid times below 100 hours.        *)
(***************************************************************************)
HourPool   == {0, 1, 99}
MinutePool == {0, 1, 59}
SecondPool == {0, 5, 10, 59}
MilliPool  == {0, 1, 500, 999}

\* n < 100 as two decimal digits
TwoDigits(n) == <<Digits[(n \div 10) + 1], Digits[(n % 10) + 1]>>

\* n < 1000 as three decimal digits
ThreeDigits(n) == <<Digits[(n \div 100) + 1]>> \o TwoDigits(n % 100)

\* a timestamp HH:MM:SS,mmm as it stands in an SRT timestamp line
StampOf(h, m, s, f) ==
    TwoDigits(h) \o <<":">> \o TwoDigits(m) \o <<":">> \o TwoDigits(s)
    \o <<",">> \o ThreeDigits(f)

WholeSeconds == {(h * 3600 + m * 60 + s) * 1000 :
                   h \in HourPool, m \in MinutePool, s \in SecondPool}

Stamps == {StampOf(h, m, s, f) :
             h \in HourPool, m \in MinutePool, s \in SecondPool, f \in MilliPool}

InitRoundTrip ==
    /\ result = "none"
    /\ clock = <<>>
    /\ parsed = NoTime
    /\ \/ /\ pc = "rt_format"
          /\ time_ms \in WholeSeconds
          /\ stamp = <<>>
       \/ /\ pc = "rt_parse"
          /\ time_ms = 0
          /\ stamp \in Stamps
    /\ UpdIdle
    /\ DocIdle
    /\ SelIdle
    /\ ParseIdle

\* format_time(seconds)
FormatSeconds ==
    /\ pc = "rt_format"
    /\ clock' = format_time(time_ms)
    /\ pc' = "rt_formatted"
    /\ UNCHANGED <<result, time_ms, stamp, parsed, docVars, selVars, parseVars,
                   updVars>>

\* parse_time of the string format_time returned
ParseClock ==
    /\ pc = "rt_formatted"
    /\ parsed' = parse_time(clock)
    /\ pc' = "rt_format_done"
    /\ result' = IF parsed'.ok THEN "success" ELSE "error"
    /\ UNCHANGED <<time_ms, stamp, clock, docVars, selVars, parseVars, updVars>>

\* parse_time(start_str) after start_str.replace(',', '.') (lines 201, 208)
ParseStamp ==
    /\ pc = "rt_parse"
    /\ parsed' = parse_time(Replace(stamp, ",", "."))
    /\ pc' = IF parsed'.ok THEN "rt_parsed" ELSE "rt_parse_done"
    /\ result' = IF parsed'.ok THEN result ELSE "error"
    /\ UNCHANGED <<time_ms, stamp, clock, docVars, selVars, parseVars, updVars>>

\* format_time of the value parse_time returned
FormatParsed ==
    /\ pc = "rt_parsed"
    /\ time_ms' = parsed.val
    /\ clock' = format_time(parsed.val)
    /\ pc' = "rt_parse_done"
    /\ result' = "success"
    /\ UNCHANGED <<stamp, parsed, docVars, selVars, parseVars, updVars>>

NextRoundTrip ==
    \/ FormatSeconds
    \/ ParseClock
    \/ ParseStamp
    \/ FormatParsed

SpecRoundTrip == InitRoundTrip /\ [][NextRoundTrip]_vars

(***************************************************************************)
(* Properties of create_doc_with_transcript (checked under SpecDoc).       *)
(***************************************************************************)
InsertTexts(reqs) == SelectSeq(reqs, LAMBDA r : r.kind = "insertText")

StyleRequests(reqs) == SelectSeq(reqs, LAMBDA r : r.kind = "updateParagraphStyle")

TextsOf(ins) == [i \in 1..Len(ins) |-> ins[i].text]

IsPrefix(s, t) == Len(s) <= Len(t) /\ s = SubSeq(t, 1, Len(s))

\* s.rstrip('\n')
RECURSIVE RStripNewlines(_)
RStripNewlines(s) == IF s # <<>> /\ s[Len(s)] = "\n"
                     THEN RStripNewlines(SubSeq(s, 1, Len(s) - 1))
                     ELSE s

\* C1: the index of each insertText request equals 1 plus the sum of the
\* lengths of the texts of all insertText requests emitted before it.
C1_IndexIsOnePlusPrecedingLengths ==
    LET ins == InsertTexts(requests)
    IN  \A i \in 1..Len(ins) :
          ins[i].index = 1 + SumLen(TextsOf(SubSeq(ins, 1, i - 1)))

\* The block order the claim C2 states: title, metadata, the two analysis
\* blocks exactly when an analysis text is present (a non-empty string), the
\* transcript header, the transcript body.
ExpectedTexts ==
    <<TitleText(video_info.title), MetadataText(video_info)>>
    \o (IF analysis_text # None /\ analysis_text # <<>>
          THEN <<analysis_header, analysis_text \o AnalysisSeparator>>
          ELSE <<>>)
    \o <<transcript_header, formatted>>

\* C2: the insertText requests are emitted strictly in the order Title,
\* Metadata, [AnalysisHeader, AnalysisBody iff an analysis text is present],
\* TranscriptHeader, TranscriptBody, each exactly once: at every point of the
\* construction the texts emitted so far are a prefix of that order, and once
\* the transcript body has been appended they are the whole of it.
C2_BlocksInOrder ==
    LET texts == TextsOf(InsertTexts(requests))
    IN  /\ IsPrefix(texts, ExpectedTexts)
        /\ pc \in {"doc_style", "doc_batch", "doc_done"} => texts = ExpectedTexts

C2_Witness ==
    /\ pc = "doc_done"
    /\ analysis_text # None /\ analysis_text # <<>>
    /\ Len(InsertTexts(requests)) = 6

\* C3: the HEADING_1 range starts at the title's insertion index (1), ends at
\* 1 plus the length of the title text without its trailing newlines, covers
\* none of the appended newlines and no character of a later block.
C3_TitleStyleRange ==
    \A k \in 1..Len(StyleRequests(requests)) :
      LET st  == StyleRequests(requests)[k]
          ins == InsertTexts(requests)
      IN  /\ st.namedStyleType = "HEADING_1"
          /\ st.startIndex = 1
          /\ st.startIndex = ins[1].index
          /\ st.endIndex = 1 + Len(RStripNewlines(ins[1].text))
          /\ \A j \in 1..Len(ins[1].text) :
               ins[1].index + j - 1 >= st.endIndex => ins[1].text[j] = "\n"
          /\ \A i \in 2..Len(ins) : st.endIndex <= ins[i].index

C3_Witness ==
    /\ pc = "doc_done"
    /\ Len(video_info.title) = MaxTitleLen
    /\ Len(StyleRequests(requests)) = 1

(***************************************************************************)
(* Properties of the caption-track selection (checked under SpecSelect).   *)
(***************************************************************************)
\* the track the preference order of the claim picks from a non-empty listing
IsPreferred(i) ==
    LET manual == {j \in 1..Len(items) :
                     items[j].language = English /\ ~is_auto(items[j])}
        en     == {j \in 1..Len(items) : items[j].language = English}
    IN  IF manual # {} THEN i \in manual /\ \A j \in manual : i <= j
        ELSE IF en # {} THEN i \in en /\ \A j \in en : i <= j
        ELSE i = 1

\* C4: the selection is the first-match preference order (manual English,
\* then any English, then the first track), and it fails with a not-found
\* error, without attempting a download, exactly when the listing is empty.
C4_SelectionPreference ==
    /\ pc = "sel_done" =>
         /\ (items = <<>>) <=> (result # "downloaded")
         /\ (items = <<>>) <=> (downloaded = None)
         /\ items = <<>> => result = "error: No captions found for this video"
    /\ pc \in {"sel_download", "sel_done"} /\ items # <<>> =>
         \E i \in 1..Len(items) :
            /\ IsPreferred(i)
            /\ caption_track = items[i]
            /\ caption_id = items[i].id
            /\ pc = "sel_done" => downloaded = items[i].id

\* [{en, auto}, {en, manual}, ...]: the manual English track is not the first
\* English track, and it is the one downloaded
C4_Witness ==
    /\ pc = "sel_done"
    /\ Len(items) >= 2
    /\ items[1].language = English /\ is_auto(items[1])
    /\ items[2].language = English /\ ~is_auto(items[2])
    /\ downloaded = items[2].id

(***************************************************************************)
(* Properties of the SRT parsing loop (checked under SpecParse).           *)
(***************************************************************************)
\* the lines of the payload, as the loop sees them
SourceLines ==
    LET raw == Split(transcript_text, <<"\n">>)
    IN  [i \in 1..Len(raw) |-> Strip(raw[i])]

\* the timestamp lines of the payload (lines containing '-->'), in order
SourceTimestampLines == SelectSeq(SourceLines, LAMBDA l : Contains(l, Arrow))

WellFormedTimestamp(l) == parse_srt_timestamp(l).ok

\* A valid subtitle payload (spec, section 4.1): every timestamp line has the
\* form HH:MM:SS,mmm --> HH:MM:SS,mmm and is followed by one or more text
\* lines; only blank lines and numeric index lines precede a timestamp line
\* outside a block's text.
ValidPayload ==
    LET L == SourceLines
    IN  /\ \A i \in 1..Len(L) : Contains(L[i], Arrow) =>
             /\ WellFormedTimestamp(L[i])
             /\ i < Len(L)
             /\ L[i + 1] # <<>>
             /\ ~Contains(L[i + 1], Arrow)
        /\ \A i \in 1..Len(L) :
             (\A j \in 1..i : ~Contains(L[j], Arrow)) => (L[i] = <<>> \/ IsDigit(L[i]))

\* C5: for every valid payload the number of segments equals the number of
\* timestamp lines, and the k-th segment carries the times of the k-th
\* timestamp line (source order, nothing dropped or duplicated).
C5_SegmentPerTimestampLine ==
    pc = "parse_done" /\ ValidPayload =>
      LET T == SourceTimestampLines
      IN  /\ result = "success"
          /\ Len(transcript.segments) = Len(T)
          /\ \A k \in 1..Len(transcript.segments) :
               /\ transcript.segments[k].start = parse_srt_timestamp(T[k]).start
               /\ transcript.segments[k].end = parse_srt_timestamp(T[k]).end

\* C6: every returned segment has start <= end; a payload with a timestamp
\* line whose end is earlier than its start fails instead.
C6_StartNotAfterEnd ==
    pc = "parse_done" /\ result = "success" =>
      \A k \in 1..Len(transcript.segments) :
         transcript.segments[k].start <= transcript.segments[k].end

\* a line containing '-->' without the ' --> ' separator, or with a side that
\* is not hours:minutes:seconds
MalformedTimestampLine(l) ==
    /\ Contains(l, Arrow)
    /\ \/ ~Contains(l, ArrowSeparator)
       \/ ~WellFormedTimestamp(l)

\* C7: a payload with a malformed timestamp line ends in an error outcome,
\* wherever the line sits.
C7_MalformedTimestampFails ==
    pc = "parse_done"
      /\ (LET L == SourceLines IN \E i \in 1..Len(L) : MalformedTimestampLine(L[i]))
    => result # "success"

\* C8: at the end of input a pending timestamp line with accumulated text is
\* emitted as the final segment, and appending a trailing newline or a
\* trailing blank line to the payload leaves the outcome and the segment
\* sequence unchanged.
C8_FinalSegmentFlushed ==
    pc = "parse_done" =>
      LET before == Loop(ParserStart, Split(transcript_text, <<"\n">>))
          times  == parse_srt_timestamp(before.current_timestamp)
      IN  /\ (/\ ~before.error
              /\ before.current_timestamp # <<>>
              /\ before.current_text # <<>>
              /\ times.ok)
             => /\ result = "success"
                /\ transcript.segments =
                     Append(before.segments,
                            [start |-> times.start, end |-> times.end,
                             text |-> Join(before.current_text, <<" ">>)])
          /\ \A suffix \in {<<"\n">>, <<"\n", "\n">>} :
               LET other == ParseResult(transcript_text \o suffix)
               IN  /\ other.ok <=> (result = "success")
                   /\ other.transcript.segments = transcript.segments

\* the payload ends in a text line, with no newline after it
C8_Witness ==
    /\ pc = "parse_done"
    /\ result = "success"
    /\ transcript_text # <<>>
    /\ transcript_text[Len(transcript_text)] \notin Whitespace
    /\ Len(transcript.segments) >= 1
    /\ current_text # <<>>
    /\ transcript.segments[Len(transcript.segments)].text = Join(current_text, <<" ">>)

\* C9: a payload with no timestamp line yields zero segments, no error, and
\* empty full and formatted texts.
C9_NoTimestampNoSegments ==
    pc = "parse_done" /\ ~Contains(transcript_text, Arrow) =>
      /\ result = "success"
      /\ transcript.segments = <<>>
      /\ transcript.full = <<>>
      /\ transcript.formatted = <<>>

\* a payload of text and numeric lines only
C9_Witness ==
    /\ pc = "parse_done"
    /\ ~Contains(transcript_text, Arrow)
    /\ result = "success"
    /\ LET L == SourceLines
       IN  \E i, j \in 1..Len(L) : IsDigit(L[i]) /\ L[j] # <<>> /\ ~IsDigit(L[j])

\* the space-separated words of a string
WordsOf(s) == LET f == Split(s, <<" ">>)
              IN  {w \in {f[i] : i \in 1..Len(f)} : w # <<>>}

\* the words of the payload's text lines (neither blank, numeric nor timestamp)
SourceTextWords ==
    LET L == SourceLines
    IN  UNION {WordsOf(L[i]) :
                 i \in {j \in 1..Len(L) :
                          L[j] # <<>> /\ ~IsDigit(L[j]) /\ ~Contains(L[j], Arrow)}}

\* C10: 'full' is the texts of the returned segments, in order, joined by one
\* space, without leading or trailing whitespace, and nothing of a timestamp
\* line or an index line is in it.
C10_FullIsJoinedTexts ==
    pc = "parse_done" /\ result = "success" =>
      LET full == transcript.full
          segs == transcript.segments
      IN  /\ full = Join([k \in 1..Len(segs) |-> segs[k].text], <<" ">>)
          /\ full # <<>> => Head(full) \notin Whitespace /\ full[Len(full)] \notin Whitespace
          /\ ~Contains(full, Arrow)
          /\ WordsOf(full) \subseteq SourceTextWords

C10_Witness ==
    /\ pc = "parse_done"
    /\ result = "success"
    /\ Len(transcript.segments) >= 2
    /\ transcript.segments[1].text # transcript.segments[2].text

(***************************************************************************)
(* Properties of the formatted listing (checked under SpecFormat).         *)
(***************************************************************************)
\* HH:MM:SS of a time of ms milliseconds, truncated to whole seconds
ClockOf(ms) ==
    LET whole == ms \div 1000
    IN  TwoDigits(whole \div 3600) \o <<":">> \o TwoDigits((whole \div 60) % 60)
        \o <<":">> \o TwoDigits(whole % 60)

\* C11: 'formatted' is the blocks '[HH:MM:SS - HH:MM:SS] text', one per
\* segment in order, joined by a blank line, each time truncated to a whole
\* second and written as two-digit hours, minutes (0-59) and seconds (0-59).
C11_FormattedBlocks ==
    pc = "format_done" =>
      transcript.formatted =
        Join([k \in 1..Len(segments) |->
                <<"[">> \o ClockOf(segments[k].start) \o <<" ", "-", " ">>
                \o ClockOf(segments[k].end) \o <<"]", " ">> \o segments[k].text],
             <<"\n", "\n">>)

\* 59.9 s renders as 00:00:59 and 3599.999 s as 00:59:59, in a listing of two
\* segments
C11_Witness ==
    /\ pc = "format_done"
    /\ Len(segments) = 2
    /\ segments[1].start = 59900
    /\ segments[1].end = 3599999
    /\ SubSeq(transcript.formatted, 1, 22) =
         <<"[", "0", "0", ":", "0", "0", ":", "5", "9", " ", "-", " ",
           "0", "0", ":", "5", "9", ":", "5", "9", "]", " ">>

(***************************************************************************)
(* Properties of format_time and parse_time (checked under SpecRoundTrip). *)
(***************************************************************************)
\* C12: for a whole number of seconds below 100 hours, parse_time of
\* format_time gives the number back; for a valid timestamp HH:MM:SS,mmm
\* (MM and SS in 0-59), format_time of the parsed value gives HH:MM:SS back.
C12_RoundTrip ==
    /\ pc = "rt_format_done" => parsed.ok /\ parsed.val = time_ms
    /\ pc = "rt_parse_done" => result = "success" /\ clock = SubSeq(stamp, 1, 8)

\* 65 seconds went through 00:01:05 and came back as 65
C12_Witness ==
    /\ pc = "rt_format_done"
    /\ time_ms = 65000
    /\ clock = <<"0", "0", ":", "0", "1", ":", "0", "5">>
    /\ parsed.val = 65000

\* 99:59:59,999 was parsed and came back as 99:59:59
C12_WitnessStamp ==
    /\ pc = "rt_parse_done"
    /\ stamp = StampOf(99, 59, 59, 999)
    /\ parsed.val = 359999999
    /\ clock = <<"9", "9", ":", "5", "9", ":", "5", "9">>

(***************************************************************************)
(* Properties of update_doc_with_analysis (checked under SpecLocate).      *)
(***************************************************************************)
\* the items of the fetched content that are HEADING_2 blocks containing
\* 'Full Transcript', by position
TranscriptHeadings ==
    {k \in 1..Len(content) :
       /\ content[k].kind = "paragraph"
       /\ content[k].style = "HEADING_2"
       /\ \E i \in 1..(Len(Concat(content[k].elements)) - 14) :
            SubSeq(Concat(content[k].elements), i, i + 14) = FullTranscript}

FirstTranscriptHeading == CHOOSE k \in TranscriptHeadings : \A j \in TranscriptHeadings : k <= j

Located == pc \in {"upd_located", "upd_done"}

\* C13 as stated: the search returns the start offset of the first HEADING_2
\* block containing 'Full Transcript', and it returns 1 if and only if there
\* is no such block.
C13_FallbackIffNoHeading ==
    Located =>
      /\ TranscriptHeadings # {} =>
           insert_index = content[FirstTranscriptHeading].startIndex
      /\ insert_index = 1 <=> TranscriptHeadings = {}

\* C13, amended: the search returns the start offset of the first HEADING_2
\* block containing 'Full Transcript' when there is one, and 1 when there is
\* none; it returns 1 only if there is none or the first one starts at 1.
C13_FirstHeadingOrFallback ==
    Located =>
      /\ TranscriptHeadings # {} =>
           insert_index = content[FirstTranscriptHeading].startIndex
      /\ TranscriptHeadings = {} => insert_index = 1
      /\ insert_index = 1 =>
           \/ TranscriptHeadings = {}
           \/ content[FirstTranscriptHeading].startIndex = 1

\* a document with two such headings, the first of them behind a plain
\* paragraph that contains the phrase: the search returned the first heading
C13_Witness ==
    /\ Located
    /\ document[1] = PlainMarker
    /\ Cardinality(TranscriptHeadings) = 2
    /\ insert_index = 20
    /\ insert_index = content[FirstTranscriptHeading].startIndex

(***************************************************************************)
(* Properties of an update after a creation (checked under                 *)
(* SpecCreateUpdate).                                                      *)
(***************************************************************************)
\* the body text of the fetched document: its k-th character stands at index k
FetchedText == Concat([k \in 1..Len(content) |-> Concat(content[k].elements)])

\* the index at which the transcript section '## Full Transcript' starts
TranscriptSectionStart ==
    CHOOSE i \in 1..Len(FetchedText) :
      /\ SubSeq(FetchedText, i, i + Len(transcript_header) - 1) = transcript_header
      /\ \A j \in 1..(i - 1) :
           SubSeq(FetchedText, j, j + Len(transcript_header) - 1) # transcript_header

\* C14: for a document built by create_doc_with_transcript without analysis,
\* a later update_doc_with_analysis inserts the analysis section immediately
\* before the transcript section: the order becomes title, metadata,
\* analysis, transcript.
C14_AnalysisBeforeTranscript ==
    pc = "upd_done" /\ result = "success" /\ requests # <<>>
      /\ ~Truthy(analysis_text) =>
      /\ insert_index = TranscriptSectionStart
      /\ BodyText(document) =
           SubSeq(FetchedText, 1, TranscriptSectionStart - 1)
           \o analysis_header \o AnalysisBody(new_analysis)
           \o SubSeq(FetchedText, TranscriptSectionStart, Len(FetchedText))

(***************************************************************************)
(* Properties of the document the requests build (checked under SpecDoc).  *)
(***************************************************************************)
\* C15: the insertText requests, applied in order to the empty document,
\* yield exactly the concatenation title text, metadata text, [analysis
\* header, analysis body], transcript header, transcript body (followed by the
\* newline that ends the empty document), no block inside another.
C15_DocumentIsConcatenation ==
    pc = "doc_done" /\ result = "success" =>
      BodyText(document) = Concat(ExpectedTexts) \o <<"\n">>

(***************************************************************************)
(* Properties of the segment texts (checked under SpecParse).              *)
(***************************************************************************)
\* the position of the first timestamp line after line i, or one past the end
NextTimestampLine(L, i) ==
    IF \E j \in (i + 1)..Len(L) : Contains(L[j], Arrow)
      THEN CHOOSE j \in (i + 1)..Len(L) :
             /\ Contains(L[j], Arrow)
             /\ \A h \in (i + 1)..(j - 1) : ~Contains(L[h], Arrow)
      ELSE Len(L) + 1

\* the non-empty, non-numeric lines between timestamp line i and the next
\* timestamp line
OwnTextLines(L, i) ==
    SelectSeq(SubSeq(L, i + 1, NextTimestampLine(L, i) - 1),
              LAMBDA l : l # <<>> /\ ~IsDigit(l))

\* seg is the segment of timestamp line i
IsSegmentOfLine(seg, L, i) ==
    /\ Contains(L[i], Arrow)
    /\ parse_srt_timestamp(L[i]).ok
    /\ seg.start = parse_srt_timestamp(L[i]).start
    /\ seg.end = parse_srt_timestamp(L[i]).end
    /\ seg.text = Join(OwnTextLines(L, i), <<" ">>)

AllSegmentsOwnLines(segs, L) ==
    \A k \in 1..Len(segs) : \E i \in 1..Len(L) : IsSegmentOfLine(segs[k], L, i)

\* C16: in every state of the parsing loop and in its result, each segment's
\* text is the single-space join of exactly the non-empty, non-numeric,
\* non-timestamp lines between its own timestamp line and the next one (or
\* the end of input); text before the first timestamp line is in no segment.
C16_SegmentTextIsOwnLines ==
    pc \in {"parse_loop", "parse_done"} =>
      /\ AllSegmentsOwnLines(segments, SourceLines)
      /\ AllSegmentsOwnLines(transcript.segments, SourceLines)

====
